---- MODULE Spec2Model ----
(***************************************************************************)
(* CORD-19 analysis script (src/app.py): one module-level script that      *)
(* loads metadata.csv, prints an exploration report, cleans the table,     *)
(* aggregates it, and - when hosted by Streamlit - runs run_app(), which   *)
(* filters the cleaned table by a slider's year range and aggregates the   *)
(* filtered view.  Streamlit re-executes the whole script (in a fresh      *)
(* namespace, same server process) on every widget interaction; run_app    *)
(* itself holds no event loop (src/app.py:117-167).                        *)
(***************************************************************************)
EXTENDS Integers, Sequences, FiniteSets, TLC

VARIABLES
    file,          \* the CSV at file_path: [status, columns, rows]
    host,          \* "python" (batch) or "streamlit"
    pc,            \* position of the script run
    bound,         \* module-level names currently bound: subset of {"df","cleaned_df"}
    df,            \* raw table (line 29)
    cleaned_df,    \* cleaned table (lines 49-61)
    out,           \* what the current script run has printed / plotted, in order
    error,         \* uncaught exception of the current script run ("" if none)
    loads,         \* executions of read_csv in this process
    cleans,        \* executions of the cleaning block in this process
    agg,           \* batch aggregates: papers_per_year, top_journals, source_counts
    widget,        \* slider value held by the Streamlit session (<<>> before any interaction)
    app,           \* locals of this script run's run_app() call
    fn_call,       \* function-level specification: the call last applied
    fn_result,     \* function-level specification: its result
    fn_error       \* function-level specification: the exception it raised ("" if none)

vars == <<file, host, pc, bound, df, cleaned_df, out, error, loads, cleans,
          agg, widget, app, fn_call, fn_result, fn_error>>

-----------------------------------------------------------------------------
(* Bounds of the model *)
MaxRows == 4

MaxDatedRows == 5

MaxRuns == 2

MaxViewRows == 3

MaxN == 2

(* Program constants *)
SampleSize == 5

TopCount == 10

DefaultRange == <<2019, 2023>>

important_cols == {"title", "abstract", "publish_time", "authors", "journal"}

AllColumns == important_cols \cup {"source_x"}

-----------------------------------------------------------------------------
(* Values.  A missing value (NaN / NaT) is <<>>, a present value v is <<v>>. *)
NaN == <<>>

Some(v) == <<v>>

NoTable == [columns |-> {}, rows |-> <<>>]

Min(S) == CHOOSE x \in S : \A y \in S : x <= y

Max(S) == CHOOSE x \in S : \A y \in S : x >= y

Range(s) == {s[i] : i \in DOMAIN s}

(* Text of an abstract is a sequence of characters; all other cells are    *)
(* atomic strings.                                                         *)
AbstractText == <<"a", " ", "b", " ", " ", "c">>

(* The date texts the parser understands, with the calendar date each      *)
(* denotes; every other text is unparseable.                               *)
DateTable ==
    [t \in {"2019-12-31", "2021-01-01", "2023-01-15"} |->
        CASE t = "2019-12-31" -> [year |-> 2019, month |-> 12, day |-> 31]
          [] t = "2021-01-01" -> [year |-> 2021, month |-> 1, day |-> 1]
          [] t = "2023-01-15" -> [year |-> 2023, month |-> 1, day |-> 15]]

-----------------------------------------------------------------------------
(* Loader: pd.read_csv with default NA handling turns an empty cell into   *)
(* NaN and numbers the rows 0..n-1.                                        *)
ReadCell(c, v) ==
    IF c = "abstract"
    THEN (IF v = <<>> THEN NaN ELSE Some(v))
    ELSE (IF v = "" THEN NaN ELSE Some(v))

ReadCsv(f) ==
    [columns |-> f.columns,
     rows |-> [i \in 1..Len(f.rows) |->
                 [c \in f.columns \cup {"idx"} |->
                     IF c = "idx" THEN i - 1 ELSE ReadCell(c, f.rows[i][c])]]]

-----------------------------------------------------------------------------
(* Cleaner *)
DropNaTitleOnly(rows) == SelectSeq(rows, LAMBDA r : r.title # NaN)

DropNa(rows) == SelectSeq(rows, LAMBDA r : r.title # NaN /\ r.publish_time # NaN)

FillNa(a) == IF a = NaN THEN <<>> ELSE a[1]

ToDatetime(t) ==
    IF t = NaN THEN NaN
    ELSE IF t[1] \in DOMAIN DateTable THEN Some(DateTable[t[1]]) ELSE NaN

DtYearEpoch(d) == IF d = NaN THEN Some(1970) ELSE Some(d[1].year)

DtYear(d) == IF d = NaN THEN NaN ELSE Some(d[1].year)

WordCount(a) ==
    Cardinality({i \in DOMAIN a : a[i] # " " /\ (i = 1 \/ a[i - 1] = " ")})

CleanRecord(r) ==
    LET a == FillNa(r.abstract)
        d == ToDatetime(r.publish_time)
    IN  [c \in DOMAIN r \cup {"publish_year", "abstract_word_count"} |->
            CASE c = "abstract" -> a
              [] c = "publish_time" -> d
              [] c = "publish_year" -> DtYear(d)
              [] c = "abstract_word_count" -> WordCount(a)
              [] OTHER -> r[c]]

CleanTable(t) ==
    LET kept == DropNa(t.rows)
    IN  [columns |-> t.columns \cup {"publish_year", "abstract_word_count"},
         rows |-> [i \in 1..Len(kept) |-> CleanRecord(kept[i])]]

-----------------------------------------------------------------------------
(* Range filter: the boolean mask of lines 128-131.  A comparison with a   *)
(* missing year is False; the selection is a new table in source order.    *)
FilterByYearExclusive(rows, lo, hi) ==
    SelectSeq(rows, LAMBDA r :
        r.publish_year # NaN /\ r.publish_year[1] >= lo /\ r.publish_year[1] < hi)

FilterByYear(rows, lo, hi) ==
    SelectSeq(rows, LAMBDA r :
        r.publish_year # NaN /\ r.publish_year[1] >= lo /\ r.publish_year[1] <= hi)

-----------------------------------------------------------------------------
(* Aggregators *)
Column(rows, field) == [i \in DOMAIN rows |-> rows[i][field]]

DistinctValues(col) == {col[i][1] : i \in {j \in DOMAIN col : col[j] # NaN}}

CountOf(col, v) == Cardinality({i \in DOMAIN col : col[i] = Some(v)})

(* Series.value_counts(): one entry per distinct present value, sorted     *)
(* descending by count with Series.sort_values' default kind (quicksort,   *)
(* not stable): the relative order of equal counts is whatever the build   *)
(* produces.                                                               *)
ValueCounts(col) ==
    LET D == DistinctValues(col)
        k == Cardinality(D)
    IN  { [i \in 1..k |-> [value |-> p[i], count |-> CountOf(col, p[i])]] :
            p \in { q \in [1..k -> D] :
                      /\ \A i, j \in 1..k : i # j => q[i] # q[j]
                      /\ \A i, j \in 1..k :
                            i < j => CountOf(col, q[i]) >= CountOf(col, q[j]) } }

HeadNOffByOne(s, n) == SubSeq(s, 1, IF n + 1 <= Len(s) THEN n + 1 ELSE Len(s))

HeadN(s, n) == SubSeq(s, 1, IF n <= Len(s) THEN n ELSE Len(s))

(* value_counts().head(n) of one column of a view: the possible results.   *)
TopNByField(rows, field, n) == { HeadN(s, n) : s \in ValueCounts(Column(rows, field)) }

(* value_counts().sort_index() of publish_year: ascending by year.         *)
CountsByYear(rows) ==
    LET col == Column(rows, "publish_year")
        D == DistinctValues(col)
        k == Cardinality(D)
        p == CHOOSE q \in [1..k -> D] : \A i, j \in 1..k : i < j => q[i] < q[j]
    IN  [i \in 1..k |-> [value |-> p[i], count |-> CountOf(col, p[i])]]

-----------------------------------------------------------------------------
(* Inputs: the rows a metadata.csv may hold, and the files built from them. *)
Row(t, a, p, j, s) ==
    [title |-> t, abstract |-> a, publish_time |-> p, authors |-> "A. Author",
     journal |-> j, source_x |-> s]

RowDomain ==
    { Row("Covid Study", AbstractText, "2019-12-31", "Lancet", "PMC"),
      Row("SARS Review", <<>>, "2023-01-15", "BMJ", ""),
      Row("", AbstractText, "2021-01-01", "Lancet", "PMC"),
      Row("Preprint", <<>>, "", "", "WHO"),
      Row("Undated Note", AbstractText, "not a date", "", "WHO") }

RowSeqs(D, n) == UNION { [1..k -> D] : k \in 0..n }

Headers ==
    { AllColumns, AllColumns \ {"source_x"}, AllColumns \ {"title"},
      AllColumns \ {"publish_time"} }

(* Rows with a parseable date and a title: the ones a view is made of.      *)
DatedRows == { r \in RowDomain : r.title # "" /\ r.publish_time \in DOMAIN DateTable }

(* Files of up to MaxRows rows of any kind, files of up to MaxDatedRows    *)
(* dated rows (enough for sample(5) to succeed) with and without the       *)
(* optional source_x column, one-row files lacking one column, and files   *)
(* that cannot be read or parsed.                                          *)
Files ==
    { [status |-> "ok", columns |-> AllColumns, rows |-> rs] :
         rs \in RowSeqs(RowDomain, MaxRows) }
    \cup { [status |-> "ok", columns |-> h, rows |-> rs] :
             h \in {AllColumns, AllColumns \ {"source_x"}},
             rs \in RowSeqs(DatedRows, MaxDatedRows) }
    \cup { [status |-> "ok", columns |-> h, rows |-> rs] :
             h \in Headers, rs \in RowSeqs(RowDomain, 1) }
    \cup { [status |-> st, columns |-> AllColumns, rows |-> <<>>] :
             st \in {"unreadable", "malformed"} }

NoAgg == [papers_per_year |-> <<>>, top_journals |-> <<>>, source_counts |-> <<>>]

NoSlider == [min |-> 0, max |-> 0, value |-> <<>>]

NoApp ==
    [steps |-> <<>>, error |-> "", slider |-> NoSlider, year_filter |-> <<>>,
     filtered_df |-> <<>>, sampled |-> {}, papers_per_year |-> <<>>,
     top_journals |-> <<>>, source_counts |-> <<>>]

NoCall == [op |-> "", lo |-> 0, hi |-> 0, field |-> "", n |-> 0, view |-> <<>>]

Init ==
    /\ file \in Files
    /\ host \in {"python", "streamlit"}
    /\ pc = "load"
    /\ bound = {}
    /\ df = NoTable
    /\ cleaned_df = NoTable
    /\ out = <<>>
    /\ error = ""
    /\ loads = 0
    /\ cleans = 0
    /\ agg = NoAgg
    /\ widget = <<>>
    /\ app = NoApp
    /\ fn_call = NoCall
    /\ fn_result = <<>>
    /\ fn_error = ""

-----------------------------------------------------------------------------
(* Line 29: df = pd.read_csv(file_path).  An unreadable or unparseable     *)
(* file raises and ends the script run.                                    *)
Load ==
    /\ pc = "load"
    /\ loads' = loads + 1
    /\ IF file.status = "ok"
       THEN /\ df' = ReadCsv(file)
            /\ bound' = bound \cup {"df"}
            /\ pc' = "explore"
            /\ error' = error
       ELSE /\ error' = (IF file.status = "unreadable"
                         THEN "FileNotFoundError" ELSE "ParserError")
            /\ pc' = "aborted"
            /\ UNCHANGED <<df, bound>>
    /\ UNCHANGED <<file, host, cleaned_df, out, cleans, agg, widget, app,
                   fn_call, fn_result, fn_error>>

(* Lines 31-43: head, shape and dtypes are printed, then                   *)
(* df[important_cols] raises KeyError when one of the columns is missing.  *)
Explore ==
    /\ pc = "explore"
    /\ IF important_cols \subseteq df.columns
       THEN /\ out' = out \o <<"head", "shape", "dtypes", "null_counts", "describe">>
            /\ pc' = "clean"
            /\ error' = error
       ELSE /\ out' = out \o <<"head", "shape", "dtypes">>
            /\ error' = "KeyError"
            /\ pc' = "aborted"
    /\ UNCHANGED <<file, host, bound, df, cleaned_df, loads, cleans, agg, widget,
                   app, fn_call, fn_result, fn_error>>

(* Lines 49-64: dropna, fillna, to_datetime(errors="coerce"), dt.year,     *)
(* word count, then the cleaned shape and head are printed.                *)
Clean ==
    /\ pc = "clean"
    /\ cleaned_df' = CleanTable(df)
    /\ bound' = bound \cup {"cleaned_df"}
    /\ cleans' = cleans + 1
    /\ out' = out \o <<"cleaned_shape", "cleaned_head">>
    /\ pc' = "analyze"
    /\ UNCHANGED <<file, host, df, error, loads, agg, widget, app,
                   fn_call, fn_result, fn_error>>

(* Lines 70-110: the batch aggregates and their charts, read from          *)
(* cleaned_df; the sources chart only when the column exists.              *)
Analyze ==
    /\ pc = "analyze"
    /\ \E tj \in TopNByField(cleaned_df.rows, "journal", TopCount) :
       \E sc \in (IF "source_x" \in cleaned_df.columns
                  THEN TopNByField(cleaned_df.rows, "source_x", TopCount)
                  ELSE {<<>>}) :
          agg' = [papers_per_year |-> CountsByYear(cleaned_df.rows),
                  top_journals |-> tj, source_counts |-> sc]
    /\ out' = out \o <<"papers_per_year", "top_journals", "common_words">>
                  \o (IF "source_x" \in cleaned_df.columns
                      THEN <<"source_counts">> ELSE <<>>)
    /\ pc' = "detect"
    /\ UNCHANGED <<file, host, bound, df, cleaned_df, error, loads, cleans, widget,
                   app, fn_call, fn_result, fn_error>>

-----------------------------------------------------------------------------
(* run_app(), lines 117-158, as the set of values its locals can end with. *)
(* Each statement runs only if the ones before it raised nothing:          *)
(*   122-127  int(min), int(max) raise ValueError on NaN (no year at all); *)
(*            st.slider rejects a default value outside [min, max];        *)
(*            it returns the session's value, initially the default;       *)
(*   128-131  the range filter;                                            *)
(*   135      DataFrame.sample(5) raises ValueError on fewer than 5 rows;  *)
(*   139-158  counts per year, top journals, top sources (if the column).  *)
PresentYears(rows) == DistinctValues(Column(rows, "publish_year"))

SliderValue(lo, hi) == DefaultRange

SliderAccepts(sl) ==
    /\ sl.min <= sl.value[1]
    /\ sl.value[1] <= sl.value[2]
    /\ sl.value[2] <= sl.max

RunAppLocals(c, w) ==
    LET ys == PresentYears(c.rows)
        sl == [min |-> Min(ys), max |-> Max(ys),
               value |-> SliderValue(Min(ys), Max(ys))]
        yf == IF w = <<>> THEN sl.value ELSE w
        view == FilterByYear(c.rows, yf[1], yf[2])
        idxs == {view[i].idx : i \in DOMAIN view}
    IN  IF ys = {}
        THEN { [NoApp EXCEPT !.error = "ValueError"] }
        ELSE IF ~SliderAccepts(sl)
        THEN { [NoApp EXCEPT !.slider = sl, !.error = "StreamlitAPIException"] }
        ELSE IF Len(view) < SampleSize
        THEN { [NoApp EXCEPT !.steps = <<"slider", "filter">>, !.slider = sl,
                             !.year_filter = yf, !.filtered_df = view,
                             !.error = "ValueError"] }
        ELSE { [steps |-> <<"slider", "filter", "sample", "papers_per_year",
                            "top_journals">>
                          \o (IF "source_x" \in c.columns
                              THEN <<"source_counts">> ELSE <<>>),
                error |-> "", slider |-> sl, year_filter |-> yf,
                filtered_df |-> view, sampled |-> sm,
                papers_per_year |-> CountsByYear(view),
                top_journals |-> tj, source_counts |-> sc] :
                  sm \in {S \in SUBSET idxs : Cardinality(S) = SampleSize},
                  tj \in TopNByField(view, "journal", TopCount),
                  sc \in (IF "source_x" \in c.columns
                          THEN TopNByField(view, "source_x", TopCount)
                          ELSE {<<>>}) }

(* Nothing in run_app assigns to the module-level tables: filtered_df is a *)
(* new local table.                                                        *)
RunAppFrameInPlace == cleaned_df' = [cleaned_df EXCEPT !.rows = app'.filtered_df] /\ df' = df

RunAppFrame == UNCHANGED <<df, cleaned_df>>

(* Lines 161-167 under Streamlit: run_app() is called; whatever it raises  *)
(* is swallowed by the bare except.                                        *)
RunApp ==
    /\ pc = "detect"
    /\ host = "streamlit"
    /\ app' \in RunAppLocals(cleaned_df, widget)
    /\ RunAppFrame
    /\ pc' = "done"
    /\ UNCHANGED <<file, host, bound, out, error, loads, cleans, agg, widget,
                   fn_call, fn_result, fn_error>>

(* Lines 161-167 under plain python: run_app() is not called.              *)
DetectBatch ==
    /\ pc = "detect"
    /\ host = "python"
    /\ pc' = "done"
    /\ UNCHANGED <<file, host, bound, df, cleaned_df, out, error, loads, cleans,
                   agg, widget, app, fn_call, fn_result, fn_error>>

(* A user sets the rendered slider (or asks for a rerun with the value it  *)
(* has).  run_app holds no event loop: the host serves the event by        *)
(* executing the script again from line 1, in a fresh module namespace of  *)
(* the same process, with the slider value of the session.                 *)
YearChoices == {2019, 2020, 2023}

Interact(lo, hi) ==
    /\ pc = "done"
    /\ host = "streamlit"
    /\ app.year_filter # <<>>
    /\ loads < MaxRuns
    /\ app.slider.min <= lo /\ lo <= hi /\ hi <= app.slider.max
    /\ widget' = <<lo, hi>>
    /\ pc' = "load"
    /\ bound' = {}
    /\ df' = NoTable
    /\ cleaned_df' = NoTable
    /\ agg' = NoAgg
    /\ out' = <<>>
    /\ app' = NoApp
    /\ UNCHANGED <<file, host, error, loads, cleans, fn_call, fn_result, fn_error>>

Next ==
    \/ Load
    \/ Explore
    \/ Clean
    \/ Analyze
    \/ RunApp
    \/ DetectBatch
    \/ \E lo, hi \in YearChoices : Interact(lo, hi)

Spec == Init /\ [][Next]_vars

-----------------------------------------------------------------------------
(* Function-level specification: the range filter and the top-n reducer,   *)
(* applied to cleaned tables with arbitrary bounds, fields and n.          *)
ViewRowDomain ==
    { Row("t", <<>>, p, "Lancet", "PMC") :
         p \in {"not a date", "2019-12-31", "2021-01-01", "2023-01-15"} }
    \cup { Row("t", <<>>, "2021-01-01", "", "WHO"),
           Row("t", <<>>, "2021-01-01", "BMJ", ""),
           Row("t", <<>>, "2021-01-01", "Nature", "WHO") }

ViewFiles ==
    { [status |-> "ok", columns |-> AllColumns, rows |-> rs] :
         rs \in RowSeqs(ViewRowDomain, MaxViewRows) }

BoundChoices == {2019, 2021, 2023}

InitFn ==
    /\ file \in ViewFiles
    /\ host = "python"
    /\ pc = "view"
    /\ bound = {"df", "cleaned_df"}
    /\ df = ReadCsv(file)
    /\ cleaned_df = CleanTable(ReadCsv(file))
    /\ out = <<>>
    /\ error = ""
    /\ loads = 1
    /\ cleans = 1
    /\ agg = NoAgg
    /\ widget = <<>>
    /\ app = NoApp
    /\ fn_call = NoCall
    /\ fn_result = <<>>
    /\ fn_error = ""

(* Lines 128-131 with year_filter = (lo, hi): no check of lo <= hi, no     *)
(* exception.                                                              *)
FilterCall(lo, hi) ==
    /\ pc = "view"
    /\ fn_call' = [NoCall EXCEPT !.op = "filter_by_year", !.lo = lo, !.hi = hi,
                                 !.view = cleaned_df.rows]
    /\ fn_result' = FilterByYear(cleaned_df.rows, lo, hi)
    /\ fn_error' = ""
    /\ UNCHANGED <<file, host, pc, bound, df, cleaned_df, out, error, loads, cleans,
                   agg, widget, app>>

(* Lines 82 / 104 / 146 / 155 with head(n), over the cleaned table or over *)
(* the view the last filter call returned.                                 *)
TopNCall(field, n) ==
    /\ pc = "view"
    /\ LET view == IF fn_call.op = "filter_by_year" THEN fn_result
                   ELSE IF fn_call.op = "" THEN cleaned_df.rows
                   ELSE fn_call.view
       IN  /\ fn_call' = [NoCall EXCEPT !.op = "top_n_by_field", !.field = field,
                                        !.n = n, !.view = view]
           /\ fn_result' \in TopNByField(view, field, n)
    /\ fn_error' = ""
    /\ UNCHANGED <<file, host, pc, bound, df, cleaned_df, out, error, loads, cleans,
                   agg, widget, app>>

NextFn ==
    \/ \E lo, hi \in BoundChoices : FilterCall(lo, hi)
    \/ \E field \in {"journal", "source_x"}, n \in 1..MaxN : TopNCall(field, n)

SpecFn == InitFn /\ [][NextFn]_vars

-----------------------------------------------------------------------------
(* Properties *)

CleanedRows == cleaned_df.rows

(* C1: clean retains exactly the records whose title and raw publish-date  *)
(* cells are both non-empty, in input order; the output is never longer    *)
(* than the input and no cleaned record has a missing or empty title or a  *)
(* missing or empty raw publish date.                                      *)
CleanKeepsExactlyComplete ==
    "cleaned_df" \in bound =>
        /\ Len(CleanedRows) <= Len(file.rows)
        /\ {CleanedRows[i].idx + 1 : i \in DOMAIN CleanedRows}
              = {i \in DOMAIN file.rows :
                    file.rows[i].title # "" /\ file.rows[i].publish_time # ""}
        /\ \A i, j \in DOMAIN CleanedRows :
              i < j => CleanedRows[i].idx < CleanedRows[j].idx
        /\ \A i \in DOMAIN CleanedRows :
              /\ CleanedRows[i].title # NaN
              /\ CleanedRows[i].title # Some("")
              /\ CleanedRows[i].title = Some(file.rows[CleanedRows[i].idx + 1].title)
              /\ df.rows[CleanedRows[i].idx + 1].publish_time # NaN
              /\ df.rows[CleanedRows[i].idx + 1].publish_time # Some("")

CleanDropsIncompleteWitness ==
    /\ "cleaned_df" \in bound
    /\ CleanedRows # <<>>
    /\ \E i \in DOMAIN file.rows :
          file.rows[i].title = "" /\ file.rows[i].publish_time \in DOMAIN DateTable
    /\ \E i \in DOMAIN file.rows :
          file.rows[i].title # "" /\ file.rows[i].publish_time = ""

(* C2: in every cleaned record publish_year is present iff publish_date is *)
(* present; a record with a non-empty, unparseable date text is retained   *)
(* with both absent, and clean does not abort.                             *)
CleanYearIffDate ==
    "cleaned_df" \in bound =>
        /\ error = ""
        /\ \A i \in DOMAIN CleanedRows :
              /\ (CleanedRows[i].publish_year = NaN) <=> (CleanedRows[i].publish_time = NaN)
              /\ CleanedRows[i].publish_time # NaN =>
                    CleanedRows[i].publish_year = Some(CleanedRows[i].publish_time[1].year)
        /\ \A i \in DOMAIN file.rows :
              (/\ file.rows[i].title # ""
               /\ file.rows[i].publish_time # ""
               /\ file.rows[i].publish_time \notin DOMAIN DateTable)
              => \E k \in DOMAIN CleanedRows :
                    /\ CleanedRows[k].idx = i - 1
                    /\ CleanedRows[k].publish_time = NaN
                    /\ CleanedRows[k].publish_year = NaN

CleanCoercesBadDateWitness ==
    /\ "cleaned_df" \in bound
    /\ pc = "analyze"
    /\ \E i \in DOMAIN CleanedRows :
          CleanedRows[i].publish_time = NaN /\ CleanedRows[i].publish_year = NaN
    /\ \E i \in DOMAIN CleanedRows : CleanedRows[i].publish_year = Some(2019)

(* C3: filter_by_year returns exactly the records whose publish_year is    *)
(* present and lies in [min_year, max_year], both bounds inclusive, in     *)
(* source order; a record without a year is excluded for every bounds.     *)
FilterByYearExact ==
    fn_call.op = "filter_by_year" =>
        /\ \A i, j \in DOMAIN fn_result : i < j => fn_result[i].idx < fn_result[j].idx
        /\ Range(fn_result)
              = {r \in Range(fn_call.view) :
                    /\ r.publish_year # NaN
                    /\ fn_call.lo <= r.publish_year[1]
                    /\ r.publish_year[1] <= fn_call.hi}
        /\ \A i \in DOMAIN fn_result : fn_result[i].publish_year # NaN

FilterByYearWitness ==
    /\ fn_call.op = "filter_by_year"
    /\ fn_call.lo < fn_call.hi
    /\ \E i \in DOMAIN fn_result : fn_result[i].publish_year = Some(fn_call.hi)
    /\ \E r \in Range(fn_call.view) : r.publish_year = NaN
    /\ \E r \in Range(fn_call.view) :
          r.publish_year # NaN /\ r.publish_year[1] < fn_call.lo

(* C4: a range filter call with min_year > max_year is rejected with       *)
(* InvalidRangeError and returns no view.                                  *)
InvertedRangeRejected ==
    (fn_call.op = "filter_by_year" /\ fn_call.lo > fn_call.hi)
        => fn_error = "InvalidRangeError"

(* C5: when the filtered view is empty, every step of an interactive event *)
(* (sample, counts per year, top journals, top sources) completes and none *)
(* raises.                                                                 *)
EmptyViewCompletes ==
    (pc = "done" /\ app.year_filter # <<>> /\ app.filtered_df = <<>>)
        => /\ app.error = ""
           /\ {"sample", "papers_per_year", "top_journals"} \subseteq Range(app.steps)

(* C6: within one process Loader and Cleaner execute once; an interactive  *)
(* event re-executes neither.                                              *)
LoadAndCleanOnce == loads <= 1 /\ cleans <= 1

(* C7: once the cleaned table is produced, no range-filter, aggregation or *)
(* presentation step (batch report or interactive event) changes it.       *)
CleanedTableImmutable ==
    [][(pc \in {"analyze", "detect"}) => (cleaned_df' = cleaned_df)]_vars

InteractiveTailRanWitness ==
    /\ pc = "done"
    /\ loads = 2
    /\ app.error = ""
    /\ "top_journals" \in Range(app.steps)
    /\ Len(app.filtered_df) >= SampleSize
    /\ cleaned_df = CleanTable(ReadCsv(file))

-----------------------------------------------------------------------------
FieldCount(view, field, v) ==
    Cardinality({i \in DOMAIN view : view[i][field] = Some(v)})

FirstSeen(view, field, v) ==
    Min({i \in DOMAIN view : view[i][field] = Some(v)})

PresentValues(view, field) ==
    {view[i][field][1] : i \in {j \in DOMAIN view : view[j][field] # NaN}}

(* C8 as amended: top_n_by_field returns at most n (value, count) pairs in *)
(* non-increasing count order, each count the number of records of the     *)
(* view with that value, absent values never counted or returned, and no   *)
(* omitted value has a larger count than a returned one; the order among   *)
(* equal counts is not fixed.                                              *)
TopNCountsDescending ==
    fn_call.op = "top_n_by_field" =>
        LET view == fn_call.view
            f == fn_call.field
            got == {fn_result[i].value : i \in DOMAIN fn_result}
        IN  /\ Len(fn_result) <= fn_call.n
            /\ \A i, j \in DOMAIN fn_result :
                  i < j => /\ fn_result[i].count >= fn_result[j].count
                           /\ fn_result[i].value # fn_result[j].value
            /\ \A i \in DOMAIN fn_result :
                  /\ fn_result[i].value \in PresentValues(view, f)
                  /\ fn_result[i].count = FieldCount(view, f, fn_result[i].value)
                  /\ fn_result[i].count >= 1
            /\ \A v \in PresentValues(view, f) \ got :
                  /\ Len(fn_result) = fn_call.n
                  /\ \A i \in DOMAIN fn_result :
                        fn_result[i].count >= FieldCount(view, f, v)

TopNTruncatesWitness ==
    /\ fn_call.op = "top_n_by_field"
    /\ Len(fn_result) = fn_call.n
    /\ Cardinality(PresentValues(fn_call.view, fn_call.field)) > fn_call.n
    /\ \E r \in Range(fn_call.view) : r[fn_call.field] = NaN
    /\ \E i \in DOMAIN fn_result :
       \E v \in PresentValues(fn_call.view, fn_call.field) :
          /\ \A j \in DOMAIN fn_result : fn_result[j].value # v
          /\ fn_result[i].count = FieldCount(fn_call.view, fn_call.field, v)

(* C8 as stated: the above, and values with equal counts appear in the     *)
(* order in which they are first encountered in the view.                  *)
TopNStableTies ==
    fn_call.op = "top_n_by_field" =>
        LET view == fn_call.view
            f == fn_call.field
        IN  /\ TopNCountsDescending
            /\ \A i, j \in DOMAIN fn_result :
                  (i < j /\ fn_result[i].count = fn_result[j].count)
                  => FirstSeen(view, f, fn_result[i].value)
                        < FirstSeen(view, f, fn_result[j].value)

(* C9: the slider's initial value is the default (2019, 2023) clamped to   *)
(* the data: min(publish_year) <= lo <= hi <= max(publish_year).           *)
SliderDefaultWithinData ==
    (pc = "done" /\ app.slider.value # <<>>)
        => /\ app.slider.min <= app.slider.value[1]
           /\ app.slider.value[1] <= app.slider.value[2]
           /\ app.slider.value[2] <= app.slider.max

(* C10: when the Loader or the Cleaner fails fatally, the run aborts with  *)
(* no report output emitted before the abort.                              *)
NoOutputBeforeAbort == pc = "aborted" => out = <<>>

====
